---- MODULE Spec2Model ----
(***************************************************************************)
(* A model of the candidate-generation and availability-polling pipeline   *)
(* of ToadTools (src/check_urls): candidate generation, batching, the      *)
(* availability check with its retry loop, and the JSON result store.      *)
(*                                                                         *)
(* Words are sequences of character codes, so that concatenation and the   *)
(* lexicographic order of sorted() are computed, not assumed.  Host names  *)
(* and domains of the polling pipeline are sequences of tokens.            *)
(*                                                                         *)
(* Each part has its own specification: SpecGen (candidate generation),    *)
(* SpecBatch (create_batches), SpecStore (a sequence of saves), SpecUpsert *)
(* (saves on given arguments), SpecCheck (check_domain_list on one batch), *)
(* Spec (main), SpecResume (main, stopped and started again), SpecCombine  *)
(* (combine_lists), SpecPools (the pools of NameChecker), SpecConcurrent   *)
(* (two processes saving into one file), SpecFaulty (main with failing     *)
(* reads and writes of the file).                                          *)
(***************************************************************************)
EXTENDS Integers, Sequences, FiniteSets, TLC

VARIABLES
    \* ---- combine_lists called on its own (utilities.py)
    cl_lists,         \* argument *lists
    cl_out,           \* the returned list
    cl_pc,            \* "call" before the call, "done" after
    \* ---- the word lists (generate_names.py, name_checker.py)
    name_seeds,       \* get_name_seeds(): the lists of name_seeds.json
    item_list_keys,   \* NameChecker.item_list_keys: the key filter
    \* ---- candidate generation (generate_names.py, name_checker.py)
    start_items,      \* NameChecker.start_items: the Start pool
    end_items,        \* NameChecker.end_items: the End pool
    concat_items,     \* NameChecker.concat_items: the candidate sequence
    gen_pc,           \* NameChecker.__post_init__: "start", "end", "pools"
                      \* before its three calls, "done" after them
    \* ---- create_batches called on its own (godaddy.py)
    cb_items,         \* argument items
    cb_batch_size,    \* argument batch_size
    cb_batches,       \* the returned list of batches
    cb_pc,            \* "call" before the call, "done" after
    \* ---- the result store (utilities.py)
    file,             \* the JSON file: [exists, valid, recs]
    last_dup,         \* TRUE when the last saved list carried a name twice
    \* ---- save_results_to_json called on given arguments (utilities.py)
    up_data,          \* argument data
    file_before,      \* the file as it was before the last call
    up_pc,            \* "first", "second", "third", "done": the next call;
                      \* "raised": the last call raised
    \* ---- two processes in save_results_to_json on one file (utilities.py)
    cw_pc,            \* where each process is: "read", "merge", "dump", ...
    cw_data,          \* each process's argument data
    cw_existing,      \* each process's existing_data
    \* ---- download_multiple and download_file (src/src/downloader.py)
    dl_urls,          \* download_urls
    dl_initial,       \* the files of save_directory before the call
    dl_final,         \* the files of save_directory, by filename
    dl_tmp,           \* the files of save_directory / 'tmp', by filename
    dl_tmpdir,        \* save_directory / 'tmp' exists
    dl_ui,            \* index of the url in work (1-based)
    dl_pc,            \* where download_multiple is
    dl_total,         \* number of chunks of the response in work
    dl_attempts,      \* the download_file calls that ended, in order
    \* ---- a File or Directory object and its parent folder (models/)
    obj_kind,         \* "File" or "Directory"
    obj_name,         \* self._name
    obj_replacement_char, \* self._replacement_char
    obj_pc,           \* "new" before the constructor, "ready" after it,
                      \* "failed" when the constructor raised
    disk,             \* names of the entries of the parent folder
    last_call,        \* the last call on the object and how it ended
    \* ---- the polling pipeline (godaddy.py, github.py)
    provider,         \* "GoDaddy" (godaddy.py) or "GitHub" (github.py)
    entry,            \* the function called: "check_list" or "main"
    host_names,       \* main's host_names / usernames
    domain_endings,   \* main's _domain_endings
    batch_size,       \* main's _batch_size
    max_retries,      \* get_max_retries()
    limit,            \* main's limit: None, or a number
    pc,               \* where the run is
    batches,          \* main's batches
    bi,               \* index of the batch in work (1-based)
    batch,            \* the batch check_domain_list works on
    ii,               \* index of the item of the batch in work (1-based)
    responses,        \* what requests.get gave for the item in work, in order
    waits,            \* time.sleep(30) calls made for the item in work
    check_done,       \* the check of the item in work has returned
    ret,              \* the value that check returned
    log,              \* the last message that check printed
    json_results,     \* check_domain_list's json_results / results
    calc_results,     \* check_domain_list's calc_results
    total_available,  \* main's total_available
    total_processed,  \* main's total_processed
    pending,          \* existing_data between the merge and json.dump
    summaries,        \* number of "Batch: ... Total: ..." summaries printed
    crash,            \* the exception that ended the run, or "none"
    runs,             \* number of starts of main so far
    durable,          \* the records of the last completed json.dump
    requested,        \* the items requests.get was called for in this run
    checked           \* the checks that returned in this run: [item, available]

clVars    == <<cl_lists, cl_out, cl_pc>>
seedVars  == <<name_seeds, item_list_keys>>
cwVars    == <<cw_pc, cw_data, cw_existing>>
dlVars    == <<dl_urls, dl_initial, dl_final, dl_tmp, dl_tmpdir, dl_ui, dl_pc,
               dl_total, dl_attempts>>
objVars   == <<obj_kind, obj_name, obj_replacement_char, obj_pc, disk,
               last_call>>
laterVars == <<dlVars, objVars>>
restVars  == <<clVars, seedVars, cwVars, laterVars>>
genVars   == <<start_items, end_items, concat_items, gen_pc>>
cbVars    == <<cb_items, cb_batch_size, cb_batches, cb_pc>>
storeVars == <<file, last_dup>>
upVars    == <<up_data, file_before, up_pc>>
cfgVars   == <<provider, entry, host_names, domain_endings, batch_size,
               max_retries, limit>>
checkVars == <<responses, waits, check_done, ret, log>>
runVars   == <<pc, batches, bi, batch, ii, json_results, calc_results,
               total_available, total_processed, pending, summaries, crash,
               runs, durable, requested, checked>>
pipeVars  == <<cfgVars, checkVars, runVars>>
vars      == <<genVars, cbVars, storeVars, upVars, pipeVars, restVars>>

(***************************************************************************)
(* Bounds of the model.                                                    *)
(***************************************************************************)
MaxWordLen   == 2     \* longest word of a word list
MaxPool      == 2     \* largest Start / End pool
MaxItems     == 3     \* longest list handed to create_batches on its own
MaxBatchSize == 3     \* largest batch_size handed to create_batches on its own
MaxData      == 2     \* longest list handed to save_results_to_json
MaxHosts     == 2     \* longest host_names / usernames list of a run
MaxBatch     == 2     \* largest batch_size of a run, longest batch checked alone
MaxRetries   == 3     \* largest MAX_RETRIES
MaxRuns      == 2     \* starts of main: the first run and its re-runs
MaxLimit     == 3     \* largest limit handed to main
MaxLists     == 2     \* most lists handed to combine_lists on its own
MaxListLen   == 2     \* longest list handed to combine_lists on its own
MaxSeeds     == 2     \* most word lists of name_seeds.json
MaxUrls      == 2     \* longest download_urls list
MaxChunks    == 2     \* most chunks of one response
MaxEntries   == 2     \* most entries of the parent folder

Alphabet == {1, 2}                   \* character codes
ItemNames == {"a", "b", "c"}         \* items of a list to batch

Min(a, b) == IF a < b THEN a ELSE b

SeqsUpTo(S, n) == UNION {[1..k -> S] : k \in 0..n}

Range(s) == {s[i] : i \in DOMAIN s}

\* chain(*ss): the items of the lists of ss, one list after the other
RECURSIVE Flatten(_)
Flatten(ss) == IF ss = <<>> THEN <<>> ELSE Head(ss) \o Flatten(Tail(ss))

(***************************************************************************)
(* Strings: the order Python's sorted() uses on str, by code point.        *)
(***************************************************************************)
RECURSIVE StrLess(_, _)
StrLess(a, b) ==
    IF a = <<>> THEN b # <<>>
    ELSE IF b = <<>> THEN FALSE
    ELSE IF Head(a) # Head(b) THEN Head(a) < Head(b)
    ELSE StrLess(Tail(a), Tail(b))

Words == SeqsUpTo(Alphabet, MaxWordLen) \ {<<>>}

\* sorted(S) for a set of strings
RECURSIVE sorted(_)
sorted(S) ==
    IF S = {} THEN <<>>
    ELSE LET m == CHOOSE x \in S : \A y \in S \ {x} : StrLess(x, y)
         IN  <<m>> \o sorted(S \ {m})

\* utilities.combine_lists: set(chain(*lists)), then sorted
AsChainOnly(lists) == Flatten(lists)

combine_lists(lists) == sorted(UNION {Range(l) : l \in Range(lists)})

\* the strings of the lists handed to combine_lists on its own: one is a
\* prefix of another, and the lists can overlap
CombineWords == {<<1>>, <<1, 2>>, <<2>>}

ClInit ==
    /\ cl_lists \in SeqsUpTo(SeqsUpTo(CombineWords, MaxListLen), MaxLists)
    /\ cl_out = <<>>
    /\ cl_pc = "call"

ClIdle ==
    /\ cl_lists = <<>>
    /\ cl_out = <<>>
    /\ cl_pc = "idle"

CallCombineLists ==
    /\ cl_pc = "call"
    /\ cl_out' = combine_lists(cl_lists)
    /\ cl_pc' = "done"
    /\ UNCHANGED <<cl_lists, seedVars, cwVars, laterVars>>
    /\ UNCHANGED <<genVars, cbVars, storeVars, upVars, pipeVars>>

(***************************************************************************)
(* generate_names.concatenate_string_lists:                                *)
(*     [a + b for a in list_a for b in list_b]                             *)
(***************************************************************************)
RECURSIVE ConcatWithEach(_, _)
ConcatWithEach(a, list_b) ==
    IF list_b = <<>> THEN <<>>
    ELSE <<a \o Head(list_b)>> \o ConcatWithEach(a, Tail(list_b))

RECURSIVE concatenate_string_lists(_, _)
concatenate_string_lists(list_a, list_b) ==
    IF list_a = <<>> THEN <<>>
    ELSE ConcatWithEach(Head(list_a), list_b)
             \o concatenate_string_lists(Tail(list_a), list_b)

SeedIdle ==
    /\ name_seeds = <<>>
    /\ item_list_keys = <<>>

(***************************************************************************)
(* The word lists and the pools drawn from them.  A word list of           *)
(* name_seeds.json is [listName, listPlacement, listItems].  An argument   *)
(* that may be None, one value or a list of values is [kind, values].      *)
(***************************************************************************)
BEGINNING == "beginning"
END       == "end"
BOTH      == "both"

ArgNone       == [kind |-> "none", values |-> <<>>]
ArgOne(v)     == [kind |-> "one", values |-> <<v>>]
ArgList(vs)   == [kind |-> "list", values |-> vs]

ListNames  == {"colors", "animals"}
ListItems  == {<< <<1>> >>, << <<2>>, <<1>> >>, << <<1, 2>> >>}
WordLists  ==
    [listName : ListNames, listPlacement : {BEGINNING, END, BOTH},
     listItems : ListItems]
KeyFilters ==
    {ArgNone, ArgOne("colors"), ArgList(<<>>), ArgList(<<"animals">>),
     ArgList(<<"colors", "animals">>)}

\* generate_names.get_list_names
get_list_names(seeds) == [i \in DOMAIN seeds |-> seeds[i].listName]

\* generate_names.get_list_placements
get_list_placements == <<BEGINNING, END, BOTH>>

\* lines 39-51: None gives all values, one value gives the list of it
Normalised(arg, all) == IF arg.kind = "none" THEN all ELSE arg.values

\* line 56: the list item is taken for the placement
AsPlacementOnly(item, names, placement) == item.listPlacement = placement

Selected(item, names, placement) ==
    item.listName \in Range(names) /\ item.listPlacement = placement

\* lines 54-57 for one item of the seeds: once per placement that selects it
ListsOfItem(item, names, placements) ==
    LET hits == SelectSeq(placements, LAMBDA q : Selected(item, names, q))
    IN  [i \in DOMAIN hits |-> item.listItems]

\* lines 53-57: lists_to_combine
RECURSIVE ListsToCombine(_, _, _)
ListsToCombine(seeds, names, placements) ==
    IF seeds = <<>> THEN <<>>
    ELSE ListsOfItem(Head(seeds), names, placements)
             \o ListsToCombine(Tail(seeds), names, placements)

\* generate_names.get_combined_list
get_combined_list(seeds, list_names, list_placements) ==
    combine_lists(ListsToCombine(seeds,
                                 Normalised(list_names, get_list_names(seeds)),
                                 Normalised(list_placements,
                                            get_list_placements)))

\* Position and GenNames.get_combined_items, which name_checker.py uses and
\* generate_names.py does not define: the positions START, END, START_END
\* are the placements of ListPlacement, and get_combined_items(keys,
\* position) is the combined list of the lists of that one position
Position_START     == BEGINNING
Position_END       == END
Position_START_END == BOTH

get_combined_items(seeds, keys, position) ==
    get_combined_list(seeds, keys, ArgOne(position))

SeedInit ==
    /\ name_seeds \in SeqsUpTo(WordLists, MaxSeeds)
    /\ item_list_keys \in KeyFilters
    /\ start_items = <<>>
    /\ end_items = <<>>
    /\ concat_items = <<>>
    /\ gen_pc = "start"

\* NameChecker.get_start_items
get_start_items ==
    /\ gen_pc = "start"
    /\ start_items' =
          combine_lists(
              <<get_combined_items(name_seeds, item_list_keys, Position_START),
                get_combined_items(name_seeds, item_list_keys,
                                   Position_START_END)>>)
    /\ gen_pc' = "end"
    /\ UNCHANGED <<end_items, concat_items, cbVars, storeVars, upVars,
                   pipeVars, restVars>>

\* NameChecker.get_end_items
get_end_items ==
    /\ gen_pc = "end"
    /\ end_items' =
          combine_lists(
              <<get_combined_items(name_seeds, item_list_keys, Position_END),
                get_combined_items(name_seeds, item_list_keys,
                                   Position_START_END)>>)
    /\ gen_pc' = "pools"
    /\ UNCHANGED <<start_items, concat_items, cbVars, storeVars, upVars,
                   pipeVars, restVars>>

\* The pools NameChecker.__post_init__ holds: deduplicated and sorted.
Pools == {sorted(S) : S \in {T \in SUBSET Words : Cardinality(T) <= MaxPool}}

GenInit ==
    /\ start_items \in Pools
    /\ end_items \in Pools
    /\ concat_items = <<>>
    /\ gen_pc = "pools"

GenIdle ==
    /\ start_items = <<>>
    /\ end_items = <<>>
    /\ concat_items = <<>>
    /\ gen_pc = "idle"

\* NameChecker.get_concatenated_items.  It calls
\* GenNames.concatenate_item_lists, a name generate_names.py does not define;
\* the concatenation generate_names.py defines is concatenate_string_lists.
get_concatenated_items ==
    /\ gen_pc = "pools"
    /\ concat_items' = concatenate_string_lists(start_items, end_items)
    /\ gen_pc' = "done"
    /\ UNCHANGED <<start_items, end_items, cbVars, storeVars, upVars, pipeVars,
                   restVars>>

(***************************************************************************)
(* godaddy.create_batches:                                                 *)
(*     for i in range(0, len(items), batch_size):                          *)
(*         batches.append(items[i:i + batch_size])                         *)
(***************************************************************************)
RECURSIVE BatchesFrom(_, _, _)
BatchesFrom(list, size, i) ==
    IF i >= Len(list) THEN <<>>
    ELSE <<SubSeq(list, i + 1, Min(i + size, Len(list)))>>
             \o BatchesFrom(list, size, i + size)

\* batches that stop at the last full batch
AsFullBatchesOnly(list, size) ==
    BatchesFrom(SubSeq(list, 1, (Len(list) \div size) * size),
                size, 0)

create_batches(list, size) == BatchesFrom(list, size, 0)

CbInit ==
    /\ cb_items \in SeqsUpTo(ItemNames, MaxItems)
    /\ cb_batch_size \in 1..MaxBatchSize
    /\ cb_batches = <<>>
    /\ cb_pc = "call"

CbIdle ==
    /\ cb_items = <<>>
    /\ cb_batch_size = 1
    /\ cb_batches = <<>>
    /\ cb_pc = "idle"

CallCreateBatches ==
    /\ cb_pc = "call"
    /\ cb_batches' = create_batches(cb_items, cb_batch_size)
    /\ cb_pc' = "done"
    /\ UNCHANGED <<cb_items, cb_batch_size, genVars, storeVars, upVars, pipeVars,
                   restVars>>

(***************************************************************************)
(* The result store.  A record is a dict with the key 'name' and further   *)
(* keys: [name |-> n, fields |-> f], f a function from the other keys to   *)
(* their values.  No other key equals 'name': a domain key holds a '.',    *)
(* the username pipeline's key is 'GitHub'.  The order of the keys inside  *)
(* one dict is not modelled.                                               *)
(*                                                                         *)
(* The file is [exists, valid, recs]: valid is FALSE while its text is not *)
(* a complete JSON document (open(file_path, 'w') has truncated it and     *)
(* json.dump has not finished).                                            *)
(***************************************************************************)
Names     == {"a", "b"}
FieldKeys == {"com", "org"}

FieldMaps == UNION {[K -> BOOLEAN] : K \in SUBSET FieldKeys}
Records   == [name : Names, fields : FieldMaps]
\* what check_domain_list and check_username_list build: 'name' and one key
CheckRecords == {r \in Records : Cardinality(DOMAIN r.fields) = 1}

NamesOf(recs) == {recs[i].name : i \in DOMAIN recs}
UniqueNames(recs) ==
    \A i, j \in DOMAIN recs : recs[i].name = recs[j].name => i = j

MissingFile == [exists |-> FALSE, valid |-> TRUE, recs |-> <<>>]
ValidFile(recs) == [exists |-> TRUE, valid |-> TRUE, recs |-> recs]
TruncatedFile == [exists |-> TRUE, valid |-> FALSE, recs |-> <<>>]

\* stores in which no two records share a name
UniqueStores == {s \in SeqsUpTo(Records, Cardinality(Names)) : UniqueNames(s)}
DataLists == SeqsUpTo(CheckRecords, MaxData)

\* dict.update: existing_item.update(item)
AsReplace(existing_item, item) == item

DictUpdate(existing_item, item) ==
    [name   |-> item.name,
     fields |-> [k \in DOMAIN existing_item.fields \cup DOMAIN item.fields |->
                    IF k \in DOMAIN item.fields THEN item.fields[k]
                    ELSE existing_item.fields[k]]]

\* the for / else of save_results_to_json for one item of data
AsAlwaysAppend(existing_data, item) == Append(existing_data, item)

UpsertItem(existing_data, item) ==
    LET hits == {i \in DOMAIN existing_data :
                    existing_data[i].name = item.name}
    IN  IF hits = {} THEN Append(existing_data, item)
        ELSE LET i == CHOOSE h \in hits : \A g \in hits : h <= g
             IN  [existing_data EXCEPT ![i] = DictUpdate(@, item)]

\* a merge that looks for the name only among the records read from the file
RECURSIVE MergeAgainst(_, _, _)
MergeAgainst(loaded, current, data) ==
    IF data = <<>> THEN current
    ELSE IF Head(data).name \in NamesOf(loaded)
         THEN MergeAgainst(loaded, UpsertItem(current, Head(data)), Tail(data))
         ELSE MergeAgainst(loaded, Append(current, Head(data)), Tail(data))

AsMergeAgainstLoaded(existing_data, data) ==
    MergeAgainst(existing_data, existing_data, data)

\* "for item in data" of save_results_to_json
RECURSIVE MergeItems(_, _)
MergeItems(existing_data, data) ==
    IF data = <<>> THEN existing_data
    ELSE MergeItems(UpsertItem(existing_data, Head(data)), Tail(data))

MergeData(existing_data, data) == MergeItems(existing_data, data)

\* json.load(f) of an existing, complete file; [] on FileNotFoundError
LoadExisting(f) == IF f.exists THEN f.recs ELSE <<>>

\* lines 68-72: the read raises when the file is there and its text is no
\* JSON document; a file that is not there is FileNotFoundError, caught
AsMissingFileRaises(f) == ~f.exists \/ ~f.valid

AsReadNeverRaises(f) == FALSE

ReadRaises(f) == f.exists /\ ~f.valid

\* save_results_to_json(data, file_path), the file readable
SavedFile(f, data) == ValidFile(MergeData(LoadExisting(f), data))

HasDuplicateName(data) ==
    \E i, j \in DOMAIN data : i # j /\ data[i].name = data[j].name

StoreInit ==
    /\ file \in {MissingFile} \cup {ValidFile(s) : s \in UniqueStores}
    /\ last_dup = FALSE

StoreIdle ==
    /\ file = MissingFile
    /\ last_dup = FALSE

UpIdle ==
    /\ up_data = <<>>
    /\ file_before = MissingFile
    /\ up_pc = "idle"

\* one call save_results_to_json(data) of a sequence of calls
save_results_to_json ==
    \E data \in DataLists :
        /\ file.valid
        /\ file' = SavedFile(file, data)
        /\ last_dup' = HasDuplicateName(data)
        /\ UNCHANGED <<genVars, cbVars, upVars, pipeVars, restVars>>

(***************************************************************************)
(* save_results_to_json on given arguments: a first call, the same list    *)
(* again, then one record of the list with its value changed.              *)
(***************************************************************************)
UpInit ==
    /\ file \in {MissingFile, TruncatedFile}
                 \cup {ValidFile(s) : s \in UniqueStores}
    /\ last_dup = FALSE
    /\ up_data \in DataLists
    /\ file_before = file
    /\ up_pc = "first"

\* one call save_results_to_json(data); next_pc when it returns, "raised"
\* when the exception of the read leaves it
SaveCall(data, next_pc) ==
    /\ file_before' = file
    /\ IF ReadRaises(file)
       THEN /\ up_pc' = "raised"
            /\ UNCHANGED <<file, last_dup>>
       ELSE /\ file' = SavedFile(file, data)
            /\ last_dup' = HasDuplicateName(data)
            /\ up_pc' = next_pc

SaveFirst ==
    /\ up_pc = "first"
    /\ SaveCall(up_data, "second")
    /\ UNCHANGED <<up_data, genVars, cbVars, pipeVars, restVars>>

SaveSame ==
    /\ up_pc = "second"
    /\ SaveCall(up_data, "third")
    /\ UNCHANGED <<up_data, genVars, cbVars, pipeVars, restVars>>

\* the record r with the value of its one key negated
Negated(r) == [r EXCEPT !.fields = [k \in DOMAIN r.fields |-> ~r.fields[k]]]

SaveChanged ==
    /\ up_pc = "third"
    /\ \E i \in DOMAIN up_data :
          /\ up_data' = <<Negated(up_data[i])>>
          /\ SaveCall(up_data', "done")
    /\ UNCHANGED <<genVars, cbVars, pipeVars, restVars>>

(***************************************************************************)
(* Two processes call save_results_to_json on the same file.  The function *)
(* takes no lock; each process reads the file, merges in memory, opens the *)
(* file for writing (which truncates it) and dumps.                        *)
(***************************************************************************)
Procs == {1, 2}

CwIdle ==
    /\ cw_pc = [p \in Procs |-> "idle"]
    /\ cw_data = [p \in Procs |-> <<>>]
    /\ cw_existing = [p \in Procs |-> <<>>]

\* each process saves the result of one check; the file holds at most one
\* record when they start
CwDataLists == {<<r>> : r \in CheckRecords}
CwStores    == {s \in UniqueStores : Len(s) <= 1}

CwInit ==
    /\ file \in {MissingFile} \cup {ValidFile(s) : s \in CwStores}
    /\ last_dup = FALSE
    /\ cw_pc = [p \in Procs |-> "read"]
    /\ cw_data \in [Procs -> CwDataLists]
    /\ cw_existing = [p \in Procs |-> <<>>]

cwElsewhere == <<genVars, cbVars, upVars, pipeVars, clVars, seedVars,
                 laterVars>>

\* lines 68-72: the process reads the file
CwRead ==
    \E p \in Procs :
        /\ cw_pc[p] = "read"
        /\ IF ReadRaises(file)
           THEN /\ cw_pc' = [cw_pc EXCEPT ![p] = "raised"]
                /\ UNCHANGED cw_existing
           ELSE /\ cw_pc' = [cw_pc EXCEPT ![p] = "merge"]
                /\ cw_existing' = [cw_existing EXCEPT ![p] = LoadExisting(file)]
        /\ UNCHANGED <<file, last_dup, cw_data, cwElsewhere>>

\* lines 75-83: the merge in memory, then open(file_path, 'w')
CwOpen ==
    \E p \in Procs :
        /\ cw_pc[p] = "merge"
        /\ cw_existing' =
              [cw_existing EXCEPT ![p] = MergeData(@, cw_data[p])]
        /\ file' = TruncatedFile
        /\ cw_pc' = [cw_pc EXCEPT ![p] = "dump"]
        /\ UNCHANGED <<last_dup, cw_data, cwElsewhere>>

\* what the file holds after json.dump of recs through a handle opened when
\* the file was empty: recs when nothing was written since; when the other
\* process has written other records since, their text is overwritten from
\* the start, and what is left of it behind the new text, if the new text
\* is the shorter one, makes the file no JSON document
AfterDump(f, recs) ==
    IF f = TruncatedFile \/ f = ValidFile(recs) THEN {ValidFile(recs)}
    ELSE {ValidFile(recs), TruncatedFile}

\* line 84: json.dump, and the file is closed
CwDump ==
    \E p \in Procs :
        /\ cw_pc[p] = "dump"
        /\ file' \in AfterDump(file, cw_existing[p])
        /\ cw_pc' = [cw_pc EXCEPT ![p] = "done"]
        /\ UNCHANGED <<last_dup, cw_data, cw_existing, cwElsewhere>>

(***************************************************************************)
(* The polling pipeline.  A host name or a domain ending is a sequence of  *)
(* tokens, the dot being a token of its own, so that f"{host}.{ending}"    *)
(* and domain.rsplit('.', 1) are computed.                                 *)
(***************************************************************************)
HostNames   == {<<"a">>, <<"b">>}
EndingLists == {<< <<"com">> >>, << <<"com">>, <<"org">> >>}
GitHubKey   == <<"GitHub">>

\* f"{host}.{ending}"
DomainName(host, ending) == host \o <<".">> \o ending

\* godaddy.get_domain_list
RECURSIVE WithEndings(_, _)
WithEndings(host, endings) ==
    IF endings = <<>> THEN <<>>
    ELSE <<DomainName(host, Head(endings))>> \o WithEndings(host, Tail(endings))

RECURSIVE get_domain_list(_, _)
get_domain_list(hosts, endings) ==
    IF hosts = <<>> THEN <<>>
    ELSE WithEndings(Head(hosts), endings) \o get_domain_list(Tail(hosts), endings)

\* host_name of "host_name, domain_ending = domain.rsplit('.', 1)"
HostOf(domain) ==
    LET dots == {i \in DOMAIN domain : domain[i] = "."}
        last == CHOOSE d \in dots : \A e \in dots : e <= d
    IN  SubSeq(domain, 1, last - 1)

\* main's limit: None, or limit = n
NoLimit  == [given |-> FALSE, n |-> 0]
Limit(n) == [given |-> TRUE, n |-> n]

\* "if limit is not None: host_names = host_names[:limit]"
AsNeverTruncated(names, lim) == names

Truncated(names, lim) ==
    IF lim.given THEN SubSeq(names, 1, Min(lim.n, Len(names))) ELSE names

\* Utils.create_batches, which github.main calls: utilities.py defines none
Utils_create_batches(list, size) == BatchesFrom(list, size, 0)

(***************************************************************************)
(* What requests.get gives: an exception (raised), or a response with its  *)
(* status code, whether its text holds 'TOO_MANY_REQUESTS' (tmr) and the   *)
(* 'available' field of its JSON body.                                     *)
(***************************************************************************)
Resp(raised, status, tmr, available) ==
    [raised |-> raised, status |-> status, tmr |-> tmr, available |-> available]

RaisedResp      == Resp(TRUE, 0, FALSE, FALSE)
RateLimitedResp == Resp(FALSE, 429, TRUE, FALSE)
ForbiddenResp   == Resp(FALSE, 403, FALSE, FALSE)
NotFoundResp    == Resp(FALSE, 404, FALSE, FALSE)
OkResp(v)       == Resp(FALSE, 200, FALSE, v)

Responses ==
    {RaisedResp, RateLimitedResp, ForbiddenResp, NotFoundResp,
     OkResp(TRUE), OkResp(FALSE)}

\* the rate-limit signal: not 200, and 'TOO_MANY_REQUESTS' in response.text
AsRetryAnyError(r) == TRUE

IsRateLimited(r) == r.tmr

\* "for _ in range(max_retries)": another iteration after n of them
AsOneIterationLess(n, retries) == n < retries - 1

AsOneIterationMore(n, retries) == n < retries + 1

LoopContinues(n, retries) == n < retries

\* the number of time.sleep(30) calls after one more
AsOneCooldownOnly(w) == IF w = 0 THEN 1 ELSE w

AfterSleep(w) == w + 1

\* the dicts check_domain_list / check_username_list append for an item
JsonRecord(item, is_available) ==
    IF provider = "GoDaddy"
    THEN [name |-> HostOf(item), fields |-> (item :> is_available)]
    ELSE [name |-> item, fields |-> (GitHubKey :> is_available)]

CalcRecord(item, is_available) ==
    [name |-> IF provider = "GoDaddy" THEN HostOf(item) ELSE item,
     domain |-> is_available]

\* batch_available of main: the results of the batch that are True
AsBatchLength == Len(calc_results)

BatchAvailable ==
    Cardinality({i \in DOMAIN calc_results : calc_results[i].domain = TRUE})

keptByReturn == <<batches, bi, batch, total_available, total_processed,
                  pending, summaries, crash, runs, durable>>
elsewhere    == <<genVars, cbVars, upVars, cfgVars, restVars>>

\* the check of batch[ii] returns is_available, having last printed msg:
\* the loop of check_domain_list appends the result and goes on
Return(is_available, msg) ==
    /\ check_done' = TRUE
    /\ ret' = is_available
    /\ log' = msg
    /\ json_results' = Append(json_results, JsonRecord(batch[ii], is_available))
    /\ calc_results' = Append(calc_results, CalcRecord(batch[ii], is_available))
    /\ checked' = Append(checked, [item |-> batch[ii],
                                   available |-> is_available])
    /\ IF ii < Len(batch)
       THEN /\ ii' = ii + 1
            /\ pc' = "check"
       ELSE /\ ii' = ii
            /\ pc' = IF entry = "main" THEN "save" ELSE "returned"
    /\ UNCHANGED keptByReturn

\* an exception leaves check_domain_list and main: the run ends
Raise(exc) ==
    /\ crash' = exc
    /\ pc' = "crashed"
    /\ UNCHANGED <<check_done, ret, log, json_results, calc_results, ii,
                   batches, bi, batch, total_available, total_processed,
                   pending, summaries, runs, durable, checked>>

\* one more step inside the check of batch[ii]
Continue(next_pc, msg) ==
    /\ pc' = next_pc
    /\ log' = msg
    /\ UNCHANGED <<check_done, ret, json_results, calc_results, ii, checked>>
    /\ UNCHANGED keptByReturn

\* check_godaddy_domain / check_github_username is called for batch[ii]
CheckStart ==
    /\ pc = "check"
    /\ responses' = <<>>
    /\ waits' = 0
    /\ IF provider = "GoDaddy" /\ ~LoopContinues(0, max_retries)
       THEN Return(FALSE, "retries")
       ELSE /\ check_done' = FALSE
            /\ pc' = "request"
            /\ log' = ""
            /\ UNCHANGED <<ret, json_results, calc_results, ii, checked>>
            /\ UNCHANGED keptByReturn
    /\ UNCHANGED <<requested, storeVars, elsewhere>>

\* godaddy.py 77-88: the request of one iteration and what follows it
GoDaddyHandle(r) ==
    IF r.raised THEN Raise("RequestException")
    ELSE IF r.status = 200 THEN Return(r.available, log)
    ELSE IF IsRateLimited(r) THEN Continue("sleep", "TOO_MANY_REQUESTS")
    ELSE Return(FALSE, "status")

\* github.py 34-47
GitHubHandle(r) ==
    IF r.raised THEN Return(FALSE, "exception")
    ELSE IF r.status = 404 THEN Return(TRUE, log)
    ELSE IF r.status = 200 THEN Return(FALSE, log)
    ELSE Return(FALSE, "status")

Request ==
    /\ pc = "request"
    /\ \E r \in Responses :
          /\ responses' = Append(responses, r)
          /\ IF provider = "GoDaddy" THEN GoDaddyHandle(r) ELSE GitHubHandle(r)
    /\ requested' = requested \cup {batch[ii]}
    /\ UNCHANGED <<waits, storeVars, elsewhere>>

\* godaddy.py 85, then the next iteration or lines 90-91
Sleep ==
    /\ pc = "sleep"
    /\ waits' = AfterSleep(waits)
    /\ IF LoopContinues(Len(responses), max_retries)
       THEN Continue("request", log)
       ELSE Return(FALSE, "retries")
    /\ UNCHANGED <<responses, requested, storeVars, elsewhere>>

\* main up to its first batch
Main ==
    /\ pc = "main"
    /\ LET names == Truncated(host_names, limit)
           bs == IF provider = "GoDaddy"
                 THEN create_batches(
                          get_domain_list(names, domain_endings),
                          batch_size)
                 ELSE Utils_create_batches(names, batch_size)
       IN  /\ batches' = bs
           /\ IF bs = <<>>
              THEN /\ pc' = "done"
                   /\ UNCHANGED <<bi, batch>>
              ELSE /\ pc' = "check"
                   /\ bi' = 1
                   /\ batch' = bs[1]
    /\ ii' = 1
    /\ json_results' = <<>>
    /\ calc_results' = <<>>
    /\ total_available' = 0
    /\ total_processed' = 0
    /\ UNCHANGED <<pending, summaries, crash, runs, durable, requested,
                   checked>>
    /\ UNCHANGED <<checkVars, storeVars, elsewhere>>

\* main 167-173, then save_results_to_json up to open(file_path, 'w')
Save ==
    /\ pc = "save"
    /\ total_available' = total_available + BatchAvailable
    /\ total_processed' = total_processed + Len(batch)
    /\ IF ReadRaises(file)
       THEN /\ crash' = "JSONDecodeError"
            /\ pc' = "crashed"
            /\ UNCHANGED <<file, last_dup, pending>>
       ELSE /\ pending' = MergeData(LoadExisting(file), json_results)
            /\ file' = TruncatedFile
            /\ last_dup' = HasDuplicateName(json_results)
            /\ pc' = "write"
            /\ UNCHANGED crash
    /\ UNCHANGED <<batches, bi, batch, ii, json_results, calc_results,
                   summaries, runs, durable, requested, checked>>
    /\ UNCHANGED <<checkVars, elsewhere>>

\* "for i, batch in enumerate(batches)": the batch after the k-th
AsSameBatchAgain(k) == k

NextBatchIndex(k) == k + 1

\* json.dump, the summary of the batch, and the next batch
Write ==
    /\ pc = "write"
    /\ file' = ValidFile(pending)
    /\ durable' = pending
    /\ summaries' = summaries + 1
    /\ IF bi < Len(batches)
       THEN /\ bi' = NextBatchIndex(bi)
            /\ batch' = batches[NextBatchIndex(bi)]
            /\ ii' = 1
            /\ json_results' = <<>>
            /\ calc_results' = <<>>
            /\ pc' = "check"
       ELSE /\ pc' = "done"
            /\ UNCHANGED <<bi, batch, ii, json_results, calc_results>>
    /\ UNCHANGED <<batches, total_available, total_processed, pending, crash,
                   runs, last_dup, requested, checked>>
    /\ UNCHANGED <<checkVars, elsewhere>>

\* something else leaves the file unreadable while main runs: the next
\* json.load of save_results_to_json raises
FileDamaged ==
    /\ pc \in {"main", "check", "request", "sleep", "save"}
    /\ file # TruncatedFile
    /\ file' = TruncatedFile
    /\ UNCHANGED <<last_dup, pipeVars, genVars, cbVars, upVars, restVars>>

\* json.dump (or the write behind it) raises OSError: the exception leaves
\* save_results_to_json and main, the file stays as open(..., 'w') left it
DumpFails ==
    /\ pc = "write"
    /\ crash' = "OSError"
    /\ pc' = "crashed"
    /\ UNCHANGED <<batches, bi, batch, ii, json_results, calc_results,
                   total_available, total_processed, pending, summaries,
                   runs, durable, requested, checked>>
    /\ UNCHANGED <<checkVars, storeVars, elsewhere>>

\* the process is stopped (a signal, Ctrl-C, power) while main runs
Interrupt ==
    /\ pc \in {"main", "check", "request", "sleep", "save", "write"}
    /\ runs < MaxRuns
    /\ pc' = "killed"
    /\ UNCHANGED <<batches, bi, batch, ii, json_results, calc_results,
                   total_available, total_processed, pending, summaries,
                   crash, runs, durable, requested, checked>>
    /\ UNCHANGED <<checkVars, storeVars, elsewhere>>

\* main is started again on the same host names; only the file is kept
Rerun ==
    /\ pc = "killed"
    /\ runs' = runs + 1
    /\ pc' = "main"
    /\ batches' = <<>>
    /\ bi' = 0
    /\ batch' = <<>>
    /\ ii' = 1
    /\ json_results' = <<>>
    /\ calc_results' = <<>>
    /\ total_available' = 0
    /\ total_processed' = 0
    /\ pending' = <<>>
    /\ summaries' = 0
    /\ responses' = <<>>
    /\ waits' = 0
    /\ check_done' = FALSE
    /\ ret' = FALSE
    /\ log' = ""
    /\ requested' = {}
    /\ checked' = <<>>
    /\ UNCHANGED <<crash, durable, storeVars, elsewhere>>

RunFresh ==
    /\ batches = <<>>
    /\ bi = 0
    /\ ii = 1
    /\ responses = <<>>
    /\ waits = 0
    /\ check_done = FALSE
    /\ ret = FALSE
    /\ log = ""
    /\ json_results = <<>>
    /\ calc_results = <<>>
    /\ total_available = 0
    /\ total_processed = 0
    /\ pending = <<>>
    /\ summaries = 0
    /\ crash = "none"
    /\ runs = 1
    /\ durable = <<>>
    /\ requested = {}
    /\ checked = <<>>

PipeIdle ==
    /\ provider = "GoDaddy"
    /\ entry = "none"
    /\ host_names = <<>>
    /\ domain_endings = <<>>
    /\ batch_size = 1
    /\ max_retries = 0
    /\ limit = NoLimit
    /\ pc = "idle"
    /\ batch = <<>>
    /\ RunFresh

\* main(host_names, env_type, domain_endings, batch_size, limit) on a new file
PipeInit ==
    /\ provider \in {"GoDaddy", "GitHub"}
    /\ entry = "main"
    /\ host_names \in SeqsUpTo(HostNames, MaxHosts)
    /\ domain_endings \in IF provider = "GoDaddy" THEN EndingLists
                          ELSE {<<>>}
    /\ batch_size \in 1..MaxBatch
    /\ max_retries \in 0..MaxRetries
    /\ limit \in {NoLimit} \cup {Limit(n) : n \in 0..MaxLimit}
    /\ pc = "main"
    /\ batch = <<>>
    /\ RunFresh

\* check_domain_list(batch, env_type) / check_username_list(batch) alone
CheckInit ==
    /\ provider \in {"GoDaddy", "GitHub"}
    /\ entry = "check_list"
    /\ host_names = <<>>
    /\ domain_endings = <<>>
    /\ batch_size = 1
    /\ max_retries \in 0..MaxRetries
    /\ limit = NoLimit
    /\ batch \in IF provider = "GoDaddy"
                 THEN SeqsUpTo({DomainName(h, <<"com">>) : h \in HostNames},
                               MaxBatch)
                 ELSE SeqsUpTo(HostNames, MaxBatch)
    /\ pc = IF batch = <<>> THEN "returned" ELSE "check"
    /\ RunFresh

(***************************************************************************)
(* downloader.py.  A url is a sequence of tokens, the slash being a token  *)
(* of its own, so that url.split('/')[-1] is computed.  A file is          *)
(* [exists, data, total]: data the chunks written to it, total the number  *)
(* of chunks of the response they come from; it is a partial download      *)
(* while Len(data) < total.                                                *)
(***************************************************************************)
Urls == {<<"h", "/", "f">>, <<"k", "/", "f">>, <<"h", "/", "g">>}

\* _default_filename_func: _url.split('/')[-1]
FilenameOf(url) ==
    LET slashes == {i \in DOMAIN url : url[i] = "/"}
        last    == IF slashes = {} THEN 0
                   ELSE CHOOSE d \in slashes : \A e \in slashes : e <= d
    IN  SubSeq(url, last + 1, Len(url))

Filenames == {FilenameOf(u) : u \in Urls}

NoFile  == [exists |-> FALSE, data |-> <<>>, total |-> 0]
OldFile == [exists |-> TRUE, data |-> <<0>>, total |-> 1]
NewFile(n) == [exists |-> TRUE, data |-> <<>>, total |-> n]

Partial(f) == f.exists /\ Len(f.data) < f.total

DlIdle ==
    /\ dl_urls = <<>>
    /\ dl_initial = [f \in Filenames |-> NoFile]
    /\ dl_final = [f \in Filenames |-> NoFile]
    /\ dl_tmp = [f \in Filenames |-> NoFile]
    /\ dl_tmpdir = FALSE
    /\ dl_ui = 1
    /\ dl_pc = "idle"
    /\ dl_total = 0
    /\ dl_attempts = <<>>

\* download_multiple(download_urls, save_directory)
DlInit ==
    /\ dl_urls \in SeqsUpTo(Urls, MaxUrls)
    /\ dl_initial \in [Filenames -> {NoFile, OldFile}]
    /\ dl_final = dl_initial
    /\ dl_tmp = [f \in Filenames |-> NoFile]
    /\ dl_tmpdir = FALSE
    /\ dl_ui = 1
    /\ dl_pc = IF dl_urls = <<>> THEN "cleanup" ELSE "loop"
    /\ dl_total = 0
    /\ dl_attempts = <<>>

dlElsewhere == <<genVars, cbVars, storeVars, upVars, pipeVars, clVars,
                 seedVars, cwVars, objVars>>

\* the filename of the url in work
DlFilename == FilenameOf(dl_urls[dl_ui])

\* the download_file call for the url in work has ended: the loop of
\* download_multiple goes to the next url, or past its last one.  final is
\* the files of save_directory as the call leaves them.
DlEnds(outcome, asked, final) ==
    /\ dl_attempts' =
          Append(dl_attempts,
                 [url |-> dl_urls[dl_ui], outcome |-> outcome,
                  requested |-> asked,
                  existed |-> dl_final[DlFilename].exists,
                  final_after |-> final[DlFilename]])
    /\ IF dl_ui < Len(dl_urls)
       THEN /\ dl_ui' = dl_ui + 1
            /\ dl_pc' = "loop"
       ELSE /\ dl_ui' = dl_ui
            /\ dl_pc' = "cleanup"

\* "except Exception" of download_multiple catches the exception
AsNotCaught(exc) == FALSE

Swallowed(exc) == TRUE

\* an exception leaves download_file
DlRaises(exc, asked) ==
    IF Swallowed(exc)
    THEN DlEnds("raised", asked, dl_final)
    ELSE /\ dl_pc' = "raised"
         /\ UNCHANGED <<dl_ui, dl_attempts>>

\* lines 131-134 and 56-66: the call, the test of filepath, the tmp directory
DlCall ==
    /\ dl_pc = "loop"
    /\ IF dl_final[DlFilename].exists
       THEN /\ DlEnds("skipped", FALSE, dl_final)
            /\ UNCHANGED dl_tmpdir
       ELSE /\ dl_tmpdir' = TRUE
            /\ dl_pc' = "request"
            /\ UNCHANGED <<dl_ui, dl_attempts>>
    /\ UNCHANGED <<dl_urls, dl_initial, dl_final, dl_tmp, dl_total, dlElsewhere>>

\* lines 68-74: the request raises (requests.get, raise_for_status), or
\* gives a response of n chunks and the tmp file is opened with 'wb'
DlRequest ==
    /\ dl_pc = "request"
    /\ \/ /\ DlRaises("RequestException", TRUE)
          /\ UNCHANGED <<dl_tmp, dl_total>>
       \/ \E n \in 0..MaxChunks :
             /\ dl_total' = n
             /\ dl_tmp' = [dl_tmp EXCEPT ![DlFilename] = NewFile(n)]
             /\ dl_pc' = "write"
             /\ UNCHANGED <<dl_ui, dl_attempts>>
    /\ UNCHANGED <<dl_urls, dl_initial, dl_final, dl_tmpdir, dlElsewhere>>

\* lines 77-78: the next chunk is written, or iter_content / write raises
DlWrite ==
    /\ dl_pc = "write"
    /\ Len(dl_tmp[DlFilename].data) < dl_total
    /\ \/ /\ dl_tmp' = [dl_tmp EXCEPT ![DlFilename].data =
                                   Append(@, Len(@) + 1)]
          /\ UNCHANGED <<dl_ui, dl_pc, dl_attempts>>
       \/ /\ DlRaises("ChunkError", TRUE)
          /\ UNCHANGED dl_tmp
    /\ UNCHANGED <<dl_urls, dl_initial, dl_final, dl_tmpdir, dl_total,
                   dlElsewhere>>

\* the loop over the chunks is over when every chunk was written
AsAfterFirstChunk(written, n) == written >= 1 \/ n = 0

AllChunksWritten(written, n) == written = n

\* line 91: shutil.move of the tmp file to the final path, or it raises
DlMove ==
    /\ dl_pc = "write"
    /\ AllChunksWritten(Len(dl_tmp[DlFilename].data), dl_total)
    /\ \/ LET final == [dl_final EXCEPT ![DlFilename] = dl_tmp[DlFilename]]
          IN  /\ dl_final' = final
              /\ dl_tmp' = [dl_tmp EXCEPT ![DlFilename] = NoFile]
              /\ DlEnds("done", TRUE, final)
       \/ /\ DlRaises("OSError", TRUE)
          /\ UNCHANGED <<dl_final, dl_tmp>>
    /\ UNCHANGED <<dl_urls, dl_initial, dl_tmpdir, dl_total, dlElsewhere>>

\* lines 138-140: the tmp directory is removed when it is empty
DlCleanup ==
    /\ dl_pc = "cleanup"
    /\ dl_tmpdir' = IF dl_tmpdir /\ \A f \in Filenames : ~dl_tmp[f].exists
                    THEN FALSE ELSE dl_tmpdir
    /\ dl_pc' = "returned"
    /\ UNCHANGED <<dl_urls, dl_initial, dl_final, dl_tmp, dl_ui, dl_total,
                   dl_attempts, dlElsewhere>>

(***************************************************************************)
(* File and Directory: names, replacement character, rename                *)
(* (models/file.py, models/directory.py).  A name is a sequence of         *)
(* characters; the parent folder is the set of the names of its entries.   *)
(***************************************************************************)
\* the first two of the ten characters of DISALLOWED_CHARS, in list order
DISALLOWED_CHARS == <<"<", ">">>

None == <<"None">>

\* arguments name / value / new_name
NameInputs ==
    { <<"a">>, <<"b">>, <<" ", "b">>, <<"a", "<", "a">>, <<"a", ">">> }

\* argument replacement_char
CharInputs == {None, <<"_">>, <<">">>, <<"_", "_">>}

\* a Python value used as a condition: None and '' are false
Truthy(v) == v # None /\ v # <<>>

\* str.strip()
strip(v) ==
    LET kept == {i \in DOMAIN v : v[i] # " "}
    IN  IF kept = {} THEN <<>>
        ELSE SubSeq(v, CHOOSE i \in kept : \A j \in kept : i <= j,
                       CHOOSE i \in kept : \A j \in kept : j <= i)

startswith(v, char) == v # <<>> /\ v[1] = char
endswith(v, char) == v # <<>> /\ v[Len(v)] = char

\* Directory._strip_char
strip_char(name, char) ==
    LET n1 == IF startswith(name, char) THEN Tail(name) ELSE name
    IN  IF endswith(n1, char) THEN SubSeq(n1, 1, Len(n1) - 1) ELSE n1

\* while v.startswith(char) or v.endswith(char): v = self._strip_char(v, char)
RECURSIVE StripWhile(_, _)
StripWhile(v, char) ==
    IF startswith(v, char) \/ endswith(v, char)
        THEN StripWhile(strip_char(v, char), char)
        ELSE v

\* the first loop of Directory.name's setter, from the k-th character on
RECURSIVE StripFrom(_, _)
StripFrom(v, k) ==
    IF k > Len(DISALLOWED_CHARS) THEN v
    ELSE StripFrom(StripWhile(v, DISALLOWED_CHARS[k]), k + 1)

\* str.replace(char, new)
RECURSIVE replace(_, _, _)
replace(v, char, new) ==
    IF v = <<>> THEN <<>>
    ELSE (IF Head(v) = char THEN new ELSE <<Head(v)>>)
             \o replace(Tail(v), char, new)

\* the replace-or-raise loop of the name setters, from the k-th character on
RECURSIVE ReplaceFrom(_, _, _)
ReplaceFrom(v, k, rc) ==
    IF k > Len(DISALLOWED_CHARS) THEN [raised |-> FALSE, v |-> v]
    ELSE IF DISALLOWED_CHARS[k] \in Range(v)
        THEN IF Truthy(rc)
                THEN ReplaceFrom(replace(v, DISALLOWED_CHARS[k], rc), k + 1, rc)
                ELSE [raised |-> TRUE, v |-> v]
        ELSE ReplaceFrom(v, k + 1, rc)

\* Path(v).is_reserved() of a PosixPath
is_reserved(v) == FALSE

\* the name setter: File.name (no strip loop) and Directory.name; rc is
\* self.replacement_char at the time of the assignment
SetName(kind, value, rc) ==
    LET v0 == strip(value)
        v1 == IF kind = "Directory" THEN StripFrom(v0, 1) ELSE v0
    IN  IF is_reserved(v0) THEN [raised |-> TRUE, v |-> v0]
        ELSE ReplaceFrom(v1, 1, rc)

\* the replacement_char setter
SetReplacementChar(value) ==
    LET v == IF Truthy(value) THEN strip(value) ELSE value
    IN  IF Len(v) = 1 /\ v[1] \in Range(DISALLOWED_CHARS) THEN None
        ELSE IF Truthy(v) /\ Len(v) > 1 THEN None
        ELSE v

NoCall == [op |-> "none", arg |-> <<>>, ret |-> "none", name_before |-> <<>>,
           existed |-> FALSE, moved |-> FALSE]

Called(op, arg, result, moved) ==
    [op |-> op, arg |-> arg, ret |-> result, name_before |-> obj_name,
     existed |-> obj_name \in disk, moved |-> moved]

ObjIdle ==
    /\ obj_kind = "Directory"
    /\ obj_name = <<>>
    /\ obj_replacement_char = None
    /\ obj_pc = "idle"
    /\ disk = {}
    /\ last_call = NoCall

\* before the constructor: the parent folder is empty or holds one entry
ObjInit ==
    /\ obj_kind \in {"File", "Directory"}
    /\ obj_name = <<>>
    /\ obj_replacement_char = None
    /\ obj_pc = "new"
    /\ disk \in {{}, {<<"b">>}}
    /\ last_call = NoCall

objElsewhere == <<genVars, cbVars, storeVars, upVars, pipeVars, clVars,
                  seedVars, cwVars, dlVars>>

\* __init__ and __post_init__: the name is assigned while
\* self._replacement_char still holds the constructor's argument, the
\* replacement character is validated after it
Construct ==
    /\ obj_pc = "new"
    /\ \E name \in NameInputs, replacement_char \in CharInputs :
          LET r == SetName(obj_kind, name, replacement_char)
          IN  IF r.raised
                THEN /\ obj_pc' = "failed"
                     /\ last_call' = Called("init", name, "raised", FALSE)
                     /\ UNCHANGED <<obj_name, obj_replacement_char>>
                ELSE /\ obj_pc' = "ready"
                     /\ obj_name' = r.v
                     /\ obj_replacement_char' =
                            SetReplacementChar(replacement_char)
                     /\ last_call' = Called("init", name, "None", FALSE)
    /\ UNCHANGED <<obj_kind, disk, objElsewhere>>

\* obj.name = value
AssignName ==
    /\ obj_pc = "ready"
    /\ \E value \in NameInputs :
          LET r == SetName(obj_kind, value, obj_replacement_char)
          IN  /\ obj_name' = IF r.raised THEN obj_name ELSE r.v
              /\ last_call' = Called("name", value,
                                     IF r.raised THEN "raised" ELSE "None",
                                     FALSE)
    /\ UNCHANGED <<obj_kind, obj_replacement_char, obj_pc, disk, objElsewhere>>

\* obj.replacement_char = value
AssignReplacementChar ==
    /\ obj_pc = "ready"
    /\ \E value \in CharInputs :
          /\ obj_replacement_char' = SetReplacementChar(value)
          /\ last_call' = Called("replacement_char", value, "None", FALSE)
    /\ UNCHANGED <<obj_kind, obj_name, obj_pc, disk, objElsewhere>>

\* create(): the entry is made when it does not exist
Create ==
    /\ obj_pc = "ready"
    /\ obj_name # <<>>
    /\ obj_name \notin disk
    /\ Cardinality(disk) < MaxEntries
    /\ disk' = disk \cup {obj_name}
    /\ last_call' = Called("create", <<>>, "True", FALSE)
    /\ UNCHANGED <<obj_kind, obj_name, obj_replacement_char, obj_pc,
                   objElsewhere>>

\* rename(new_name)
Rename ==
    /\ obj_pc = "ready"
    /\ obj_name # <<>>
    /\ \E new_name \in NameInputs :
          IF obj_name = new_name
            THEN /\ last_call' = Called("rename", new_name, "True", FALSE)
                 /\ UNCHANGED <<obj_name, disk>>
          ELSE IF obj_name \notin disk
            THEN /\ last_call' = Called("rename", new_name, "False", FALSE)
                 /\ UNCHANGED <<obj_name, disk>>
          ELSE IF new_name \in disk
            THEN /\ last_call' = Called("rename", new_name, "False", FALSE)
                 /\ UNCHANGED <<obj_name, disk>>
          ELSE \/ \* self.path.rename(new_path) raises
                  /\ last_call' = Called("rename", new_name, "raised", FALSE)
                  /\ UNCHANGED <<obj_name, disk>>
               \/ \* the entry is renamed, then self.name = new_name
                  LET r == SetName(obj_kind, new_name, obj_replacement_char)
                  IN  /\ disk' = (disk \ {obj_name}) \cup {new_name}
                      /\ obj_name' = IF r.raised THEN obj_name ELSE r.v
                      /\ last_call' =
                            Called("rename", new_name,
                                   IF r.raised THEN "raised" ELSE "True",
                                   TRUE)
    /\ UNCHANGED <<obj_kind, obj_replacement_char, obj_pc, objElsewhere>>

\* C25: a rename either returns True, and then the object's name is new_name
\* and, when there was an entry to rename, the path of the object is the
\* renamed entry on disk; or it leaves the folder and the name as they were;
\* whenever the object had an entry before the call, its name is the name of
\* an entry after the call.
C25_RenameKeepsNameAndDiskTogether ==
    last_call.op = "rename" =>
        /\ \/ /\ last_call.ret = "True"
              /\ obj_name = last_call.arg
              /\ last_call.existed => obj_name \in disk
           \/ /\ last_call.ret # "True"
              /\ ~last_call.moved
              /\ obj_name = last_call.name_before
        /\ last_call.existed => obj_name \in disk

\* C26: a constructed Directory has a name without disallowed characters and
\* a replacement character that is None or one allowed character.
C26_DirectoryNameIsClean ==
    obj_kind = "Directory" /\ obj_pc = "ready" =>
        /\ \A i \in DOMAIN obj_name : obj_name[i] \notin Range(DISALLOWED_CHARS)
        /\ \/ obj_replacement_char = None
           \/ /\ Len(obj_replacement_char) = 1
              /\ obj_replacement_char[1] \notin Range(DISALLOWED_CHARS) \cup {" "}

(***************************************************************************)
(* Specifications.                                                         *)
(***************************************************************************)
RestIdle == ClIdle /\ SeedIdle /\ CwIdle /\ DlIdle /\ ObjIdle

InitGen == GenInit /\ CbIdle /\ StoreIdle /\ UpIdle /\ PipeIdle /\ RestIdle

SpecGen == InitGen /\ [][get_concatenated_items]_vars

InitBatch == GenIdle /\ CbInit /\ StoreIdle /\ UpIdle /\ PipeIdle /\ RestIdle

SpecBatch == InitBatch /\ [][CallCreateBatches]_vars

InitStore == GenIdle /\ CbIdle /\ StoreInit /\ UpIdle /\ PipeIdle /\ RestIdle

SpecStore == InitStore /\ [][save_results_to_json]_vars

InitUpsert == GenIdle /\ CbIdle /\ UpInit /\ PipeIdle /\ RestIdle

NextUpsert == SaveFirst \/ SaveSame \/ SaveChanged

SpecUpsert == InitUpsert /\ [][NextUpsert]_vars

InitCheck == GenIdle /\ CbIdle /\ StoreIdle /\ UpIdle /\ CheckInit /\ RestIdle

NextCheck == CheckStart \/ Request \/ Sleep

SpecCheck == InitCheck /\ [][NextCheck]_vars

Init == GenIdle /\ CbIdle /\ StoreIdle /\ UpIdle /\ PipeInit /\ RestIdle

Next == Main \/ CheckStart \/ Request \/ Sleep \/ Save \/ Write

Spec == Init /\ [][Next]_vars

\* main is one sequential thread: whenever it has a next step, it takes it
SpecTerminates == Init /\ [][Next]_vars /\ WF_vars(Next)

NextResume == Next \/ Interrupt \/ Rerun

SpecResume == Init /\ [][NextResume]_vars

NextFaulty == Next \/ FileDamaged \/ DumpFails

SpecFaulty == Init /\ [][NextFaulty]_vars

InitDownload ==
    /\ GenIdle /\ CbIdle /\ StoreIdle /\ UpIdle /\ PipeIdle
    /\ ClIdle /\ SeedIdle /\ CwIdle /\ DlInit /\ ObjIdle

NextDownload == DlCall \/ DlRequest \/ DlWrite \/ DlMove \/ DlCleanup

SpecDownload == InitDownload /\ [][NextDownload]_vars

InitObject ==
    /\ GenIdle /\ CbIdle /\ StoreIdle /\ UpIdle /\ PipeIdle
    /\ ClIdle /\ SeedIdle /\ CwIdle /\ DlIdle /\ ObjInit

NextObject == Construct \/ AssignName \/ AssignReplacementChar \/ Create
              \/ Rename

SpecObject == InitObject /\ [][NextObject]_vars

InitCombine ==
    /\ GenIdle /\ CbIdle /\ StoreIdle /\ UpIdle /\ PipeIdle
    /\ ClInit /\ SeedIdle /\ CwIdle /\ DlIdle /\ ObjIdle

SpecCombine == InitCombine /\ [][CallCombineLists]_vars

InitPools ==
    /\ SeedInit /\ CbIdle /\ StoreIdle /\ UpIdle /\ PipeIdle
    /\ ClIdle /\ CwIdle /\ DlIdle /\ ObjIdle

NextPools == get_start_items \/ get_end_items \/ get_concatenated_items

SpecPools == InitPools /\ [][NextPools]_vars

InitConcurrent ==
    /\ GenIdle /\ CbIdle /\ UpIdle /\ PipeIdle
    /\ ClIdle /\ SeedIdle /\ CwInit /\ DlIdle /\ ObjIdle

NextConcurrent == CwRead \/ CwOpen \/ CwDump

SpecConcurrent == InitConcurrent /\ [][NextConcurrent]_vars

(***************************************************************************)
(* Claims.                                                                 *)
(***************************************************************************)

\* C1: every candidate of the generated sequence comes from a pair (s, e)
\* of a Start-pool string and an End-pool string with s # e: no entry is
\* built from a pair whose two source strings are equal.
C1_NoSelfPair ==
    gen_pc = "done" =>
        \A i \in DOMAIN start_items, j \in DOMAIN end_items :
            LET k == (i - 1) * Len(end_items) + j
            IN  ~ /\ k \in DOMAIN concat_items
                  /\ concat_items[k] = start_items[i] \o end_items[j]
                  /\ start_items[i] = end_items[j]

\* the rate-limit signal of the domain check, read off a response
RateLimitSignal(r) == ~r.raised /\ r.status # 200 /\ r.tmr

\* the first k responses to the check in work carried the rate-limit signal
FirstRateLimited(k) ==
    /\ Len(responses) >= k
    /\ \A i \in 1..k : RateLimitSignal(responses[i])

\* C2: in the domain check, k < max_retries rate-limited responses do not
\* end the check; when the response after them is a 200, the check returns
\* that response's 'available' after k + 1 requests and k cooldowns, one
\* cooldown having followed each rate-limited response.
C2_RetryThenSuccess ==
    provider = "GoDaddy" =>
        \A k \in 0..(max_retries - 1) :
            /\ FirstRateLimited(k) /\ Len(responses) = k =>
                  /\ ~check_done
                  /\ pc = "request" => waits = k
                  /\ pc = "sleep" => waits = k - 1
            /\ /\ FirstRateLimited(k)
               /\ Len(responses) >= k + 1
               /\ ~responses[k + 1].raised
               /\ responses[k + 1].status = 200
               => /\ check_done
                  /\ ret = responses[k + 1].available
                  /\ Len(responses) = k + 1
                  /\ waits = k

C2_Witness ==
    /\ provider = "GoDaddy"
    /\ check_done
    /\ responses = <<RateLimitedResp, RateLimitedResp, OkResp(TRUE)>>
    /\ ret = TRUE
    /\ waits = 2

\* C3: in the domain check, when every response carried the rate-limit
\* signal the check ends with False and the 'Failed ... retries' message
\* after exactly max_retries requests and max_retries cooldowns, and no
\* request follows.
C3_RetriesExhausted ==
    provider = "GoDaddy" /\ FirstRateLimited(Len(responses)) =>
        /\ Len(responses) <= max_retries
        /\ check_done =>
              /\ Len(responses) = max_retries
              /\ waits = max_retries
              /\ ret = FALSE
              /\ log = "retries"
        /\ responses # <<>> /\ Len(responses) = max_retries =>
              check_done \/ pc = "sleep"

C3_Witness ==
    /\ provider = "GoDaddy"
    /\ max_retries = 1
    /\ check_done
    /\ responses = <<RateLimitedResp>>
    /\ waits = 1
    /\ log = "retries"

\* C4: in the domain check, a response that is neither a 200 nor a
\* rate-limit signal is the last one of the check: the check has returned
\* False, no cooldown followed it, and every response before it carried the
\* rate-limit signal.
C4_OtherErrorEndsCheck ==
    provider = "GoDaddy" =>
        \A i \in DOMAIN responses :
            /\ i < Len(responses) => RateLimitSignal(responses[i])
            /\ /\ ~responses[i].raised
               /\ responses[i].status # 200
               /\ ~RateLimitSignal(responses[i])
               => /\ i = Len(responses)
                  /\ check_done
                  /\ ret = FALSE
                  /\ log = "status"
                  /\ waits = i - 1

C4_Witness ==
    /\ provider = "GoDaddy"
    /\ max_retries >= 2
    /\ check_done
    /\ responses = <<ForbiddenResp>>
    /\ waits = 0

\* C5: when the request for an item raised an exception, the check of that
\* item has returned False and the run goes on: the exception does not end
\* the run, in the domain pipeline or in the username pipeline.
C5_NetworkErrorNotFatal ==
    responses # <<>> /\ responses[Len(responses)].raised =>
        /\ check_done
        /\ ret = FALSE
        /\ pc # "crashed"

\* C6: from a store in which no two records share a name, after any
\* sequence of save_results_to_json calls no two records of the store share
\* a name, also when one incoming list carries a name more than once.
C6_NoDuplicateNames == file.exists => UniqueNames(file.recs)

C6_Witness ==
    /\ last_dup
    /\ file.exists
    /\ Len(file.recs) = 2

\* C7: saving the same list a second time leaves the store exactly as the
\* first save left it, with one record per name of the list; saving a
\* record of an existing name with another value afterwards sets that
\* value in that one record, changes nothing else and adds no record.
C7_UpsertIdempotent ==
    /\ up_pc = "third" =>
          /\ file = file_before
          /\ \A n \in NamesOf(up_data) :
                Cardinality({i \in DOMAIN file.recs : file.recs[i].name = n}) = 1
    /\ up_pc = "done" =>
          LET inc == up_data[1]
              k   == CHOOSE x \in DOMAIN inc.fields : TRUE
          IN  /\ Len(file.recs) = Len(file_before.recs)
              /\ \A i \in DOMAIN file.recs :
                    IF file_before.recs[i].name = inc.name
                    THEN /\ file.recs[i].name = inc.name
                         /\ DOMAIN file.recs[i].fields
                                = DOMAIN file_before.recs[i].fields
                         /\ \A f \in DOMAIN file.recs[i].fields :
                               file.recs[i].fields[f] =
                                   IF f = k THEN inc.fields[k]
                                   ELSE file_before.recs[i].fields[f]
                    ELSE file.recs[i] = file_before.recs[i]

C7_Witness ==
    /\ up_pc = "done"
    /\ Len(file.recs) = 2
    /\ file # file_before

\* the value the last item of data named n that carries key k gives to k
LastIncoming(data, n, k) ==
    LET js == {j \in DOMAIN data : data[j].name = n /\ k \in DOMAIN data[j].fields}
        j  == CHOOSE x \in js : \A y \in js : y <= x
    IN  data[j].fields[k]

IncomingKeys(data, n) ==
    UNION {DOMAIN data[j].fields : j \in {x \in DOMAIN data : data[x].name = n}}

\* the names of data, each once, in the order of their first occurrence
RECURSIVE FirstOccurrences(_)
FirstOccurrences(data) ==
    IF data = <<>> THEN <<>>
    ELSE LET front == FirstOccurrences(SubSeq(data, 1, Len(data) - 1))
             n     == data[Len(data)].name
         IN  IF n \in Range(front) THEN front ELSE Append(front, n)

\* C8: after a save, every record that was in the store is at its old
\* position with its name; each of its fields carried by an incoming record
\* of that name has the incoming value, every other field keeps its value,
\* and no field is lost; the records of new names follow, in the order the
\* names first occur in the incoming list.
C8_MergeFrame ==
    up_pc \in {"second", "third", "done"} =>
        LET before == LoadExisting(file_before)
            after  == file.recs
            fresh  == SelectSeq(FirstOccurrences(up_data),
                                LAMBDA n : n \notin NamesOf(before))
        IN  /\ Len(after) = Len(before) + Len(fresh)
            /\ \A i \in DOMAIN after :
                  LET n   == IF i <= Len(before) THEN before[i].name
                             ELSE fresh[i - Len(before)]
                      old == IF i <= Len(before) THEN before[i].fields
                             ELSE <<>>
                  IN  /\ after[i].name = n
                      /\ DOMAIN after[i].fields
                             = DOMAIN old \cup IncomingKeys(up_data, n)
                      /\ \A k \in DOMAIN after[i].fields :
                            after[i].fields[k] =
                                IF k \in IncomingKeys(up_data, n)
                                THEN LastIncoming(up_data, n, k)
                                ELSE old[k]

C8_Witness ==
    /\ up_pc = "second"
    /\ Len(file_before.recs) = 2
    /\ \E i \in DOMAIN file.recs :
          /\ file.recs[i].name \in NamesOf(up_data)
          /\ DOMAIN file.recs[i].fields = FieldKeys
          /\ IncomingKeys(up_data, file.recs[i].name) # FieldKeys
          /\ file.recs[i] # file_before.recs[i]

\* C9: a run stopped at any point leaves every record of the last
\* completed write in the store, and when the run started again is done
\* each host name has exactly one record in the store.
C9_ResumeKeepsResults ==
    /\ pc = "killed" =>
          \A i \in DOMAIN durable :
              \E j \in DOMAIN file.recs : file.recs[j] = durable[i]
    /\ runs > 1 /\ pc = "done" =>
          \A h \in Range(host_names) :
              Cardinality({j \in DOMAIN file.recs : file.recs[j].name = h}) = 1

\* C10: for batch_size >= 1, create_batches returns consecutive slices whose
\* concatenation is the input in its order; every batch but the last holds
\* batch_size items, the last between 1 and batch_size, none is empty, and
\* an empty input gives no batch.
C10_Batches ==
    cb_pc = "done" =>
        /\ Flatten(cb_batches) = cb_items
        /\ \A b \in DOMAIN cb_batches :
              /\ Len(cb_batches[b]) >= 1
              /\ Len(cb_batches[b]) <= cb_batch_size
              /\ b < Len(cb_batches) => Len(cb_batches[b]) = cb_batch_size
        /\ cb_items = <<>> => cb_batches = <<>>

C10_Witness ==
    /\ cb_pc = "done"
    /\ Len(cb_batches) >= 2
    /\ Len(cb_batches[Len(cb_batches)]) < cb_batch_size

\* the number of batches whose totals main has added (main 172-173)
BatchesCounted ==
    IF pc \in {"write", "done"} \/ (pc = "crashed" /\ crash = "JSONDecodeError")
    THEN bi
    ELSE IF bi = 0 THEN 0 ELSE bi - 1

\* the list main hands to create_batches
Submitted ==
    IF provider = "GoDaddy"
    THEN get_domain_list(Truncated(host_names, limit), domain_endings)
    ELSE Truncated(host_names, limit)

\* C11: after each batch k of a run total_processed is the number of items
\* of batches 1..k and total_available is the number of those items whose
\* check returned available, so 0 <= total_available <= total_processed;
\* when the run is done total_processed is the number of items submitted
\* to it.
C11_RunningTotals ==
    entry = "main" =>
        LET items == Flatten(SubSeq(batches, 1, BatchesCounted))
        IN  /\ Len(checked) >= Len(items)
            /\ \A i \in DOMAIN items : checked[i].item = items[i]
            /\ total_processed = Len(items)
            /\ total_available =
                   Cardinality({i \in DOMAIN items : checked[i].available})
            /\ 0 <= total_available
            /\ total_available <= total_processed
            /\ pc = "done" => total_processed = Len(Submitted)

C11_Witness ==
    /\ pc = "done"
    /\ Len(batches) >= 2
    /\ total_available >= 1
    /\ total_available < total_processed

\* the distinct strings of the lists handed to combine_lists
InputStrings == UNION {Range(cl_lists[i]) : i \in DOMAIN cl_lists}

\* C12: for any lists, overlapping ones included, the list combine_lists
\* returns holds every distinct string of the lists exactly once, in
\* ascending order, and no string that is in none of the lists.
C12_CombinedPool ==
    cl_pc = "done" =>
        /\ \A w \in InputStrings :
              Cardinality({i \in DOMAIN cl_out : cl_out[i] = w}) = 1
        /\ \A i \in DOMAIN cl_out : cl_out[i] \in InputStrings
        /\ \A i, j \in DOMAIN cl_out : i < j => StrLess(cl_out[i], cl_out[j])

C12_Witness ==
    /\ cl_pc = "done"
    /\ Len(cl_lists) = 2
    /\ Range(cl_lists[1]) \cap Range(cl_lists[2]) # {}
    /\ cl_lists[1] = << <<2>>, <<1, 2>> >>
    /\ cl_out = << <<1>>, <<1, 2>>, <<2>> >>

\* C13: the candidates are exactly the strings s + e for s in the Start
\* pool and e in the End pool with s # e: each of them is in the candidate
\* sequence and nothing else is.
C13_CrossProductWithoutSelfPairs ==
    gen_pc = "done" =>
        Range(concat_items) =
            {start_items[q[1]] \o end_items[q[2]] :
                q \in {r \in (DOMAIN start_items) \X (DOMAIN end_items) :
                          start_items[r[1]] # end_items[r[2]]}}

\* the pairs (i, j) of pool positions whose concatenation is the string c
PairsOf(c) ==
    {q \in (DOMAIN start_items) \X (DOMAIN end_items) :
        start_items[q[1]] \o end_items[q[2]] = c}

\* the pair q comes before the pair r in the outer loop over the Start pool
\* with the inner loop over the End pool
PairBefore(q, r) == q[1] < r[1] \/ (q[1] = r[1] /\ q[2] < r[2])

\* C14: no string is in the candidate sequence twice, also when two
\* different pairs concatenate to the same string, and the candidates are
\* in the order of the outer loop over the sorted Start pool with the inner
\* loop over the sorted End pool.
C14_NoDuplicateCandidates ==
    gen_pc = "done" =>
        /\ \A i, j \in DOMAIN concat_items :
              concat_items[i] = concat_items[j] => i = j
        /\ \A i, j \in DOMAIN concat_items :
              i < j =>
                  \E q \in PairsOf(concat_items[i]) :
                      \A r \in PairsOf(concat_items[j]) : PairBefore(q, r)

\* the provider answered the request: the name is available / is taken
SaidAvailable(r) ==
    /\ ~r.raised
    /\ IF provider = "GoDaddy" THEN r.status = 200 /\ r.available
       ELSE r.status = 404

SaidUnavailable(r) ==
    /\ ~r.raised
    /\ IF provider = "GoDaddy" THEN r.status = 200 /\ ~r.available
       ELSE r.status = 200

\* the check in work has returned without an answer of the provider: its
\* last request gave a response that is no answer, or raised an exception
EndedInError ==
    /\ check_done
    /\ responses # <<>>
    /\ ~SaidAvailable(responses[Len(responses)])
    /\ ~SaidUnavailable(responses[Len(responses)])

\* C15: a check that ended in an error does not present its candidate as
\* unavailable: the value it returned is not the value of an 'unavailable'
\* answer, and the records appended for the candidate are not the records
\* of an 'unavailable' answer.
C15_ErrorIsNotUnavailable ==
    EndedInError =>
        LET item == checked[Len(checked)].item
        IN  /\ ret # FALSE
            /\ json_results[Len(json_results)] # JsonRecord(item, FALSE)
            /\ calc_results[Len(calc_results)] # CalcRecord(item, FALSE)

\* C16: the username check follows the protocol of the domain check: a
\* cooldown follows each rate-limited response, and while fewer than
\* max_retries requests have been made the check does not end on a
\* rate-limited response but makes another request.
C16_SameRetryProtocol ==
    \A i \in DOMAIN responses :
        RateLimitSignal(responses[i]) =>
            /\ waits >= IF pc = "sleep" /\ i = Len(responses) THEN i - 1 ELSE i
            /\ i < max_retries => i < Len(responses) \/ ~check_done

\* C17: a save onto a file that does not exist raises no error and leaves
\* what a save onto an empty store leaves: the file exists, is complete,
\* and holds one record per name of the incoming list, in the order the
\* names first occur, each with the keys the incoming records of that name
\* carry and the last value given to each key.
C17_MissingFileIsEmptyStore ==
    file_before = MissingFile /\ up_pc \in {"second", "raised"} =>
        LET names == FirstOccurrences(up_data)
        IN  /\ up_pc # "raised"
            /\ file.exists
            /\ file.valid
            /\ file = SavedFile(ValidFile(<<>>), up_data)
            /\ Len(file.recs) = Len(names)
            /\ \A i \in DOMAIN file.recs :
                  /\ file.recs[i].name = names[i]
                  /\ DOMAIN file.recs[i].fields = IncomingKeys(up_data, names[i])
                  /\ \A k \in DOMAIN file.recs[i].fields :
                        file.recs[i].fields[k] = LastIncoming(up_data, names[i], k)

C17_Witness ==
    /\ file_before = MissingFile
    /\ up_pc = "second"
    /\ Len(up_data) = 2
    /\ HasDuplicateName(up_data)
    /\ Len(file.recs) = 1
    /\ DOMAIN file.recs[1].fields = FieldKeys

\* the process is inside its read / merge / write of the file
InStore(p) == cw_pc[p] \in {"merge", "dump"}

\* the file holds what the process saved: for each of its items a record
\* of the item's name that carries the item's keys
HoldsDataOf(p) ==
    \A i \in DOMAIN cw_data[p] :
        \E j \in DOMAIN file.recs :
            /\ file.recs[j].name = cw_data[p][i].name
            /\ DOMAIN cw_data[p][i].fields \subseteq DOMAIN file.recs[j].fields

\* C18: of two processes that save into the same file at most one is
\* inside its read / merge / write at any time, and when both are done the
\* file holds the records of both.
C18_OneWriterAtATime ==
    /\ \A p, q \in Procs : InStore(p) /\ InStore(q) => p = q
    /\ (\A p \in Procs : cw_pc[p] = "done") =>
          /\ file.valid
          /\ \A p \in Procs : HoldsDataOf(p)

\* the candidates of a run without a limit: the list main would batch
Candidates ==
    IF provider = "GoDaddy" THEN get_domain_list(host_names, domain_endings)
    ELSE host_names

\* the checks of the run so far are the first checks of the list expected:
\* the items checked are its first items, in order, the item in work is
\* its next item, and a request was issued for its items only
ChecksFollow(expected) ==
    /\ Len(checked) <= Len(expected)
    /\ \A i \in DOMAIN checked : checked[i].item = expected[i]
    /\ pc \in {"request", "sleep"} =>
          /\ Len(checked) < Len(expected)
          /\ batch[ii] = expected[Len(checked) + 1]
    /\ requested \subseteq Range(expected)
    /\ pc = "done" =>
          /\ Len(checked) = Len(expected)
          /\ total_processed = Len(expected)

\* C19, as stated: with limit = n the run checks exactly the first
\* min(n, number of candidates) candidates of the sequence that is batched,
\* in order, and none beyond them, so that total_processed at the end of
\* the run is min(n, number of candidates).
C19_LimitOnCandidates ==
    entry = "main" /\ limit.given =>
        /\ ChecksFollow(SubSeq(Candidates, 1, Min(limit.n, Len(Candidates))))
        /\ pc = "done" => total_processed = Min(limit.n, Len(Candidates))

\* C19, amended: with limit = n the run checks exactly the candidates of
\* the first min(n, number of host names) host names, in order, and none
\* beyond them: every domain ending of each of these host names in the
\* domain pipeline, the user names themselves in the username pipeline.
\* The truncation is applied to the host names before they are expanded
\* and batched, so total_processed at the end of the run is
\* min(n, number of host names) times the number of domain endings.
C19_LimitOnHostNames ==
    entry = "main" /\ limit.given =>
        LET m    == Min(limit.n, Len(host_names))
            kept == SubSeq(host_names, 1, m)
        IN  /\ ChecksFollow(IF provider = "GoDaddy"
                            THEN get_domain_list(kept, domain_endings)
                            ELSE kept)
            /\ pc = "done" =>
                  total_processed =
                      IF provider = "GoDaddy" THEN m * Len(domain_endings)
                      ELSE m

C19_Witness ==
    /\ pc = "done"
    /\ provider = "GoDaddy"
    /\ limit = Limit(1)
    /\ Len(host_names) = 2
    /\ Len(domain_endings) = 2
    /\ total_processed = 2
    /\ Len(checked) = 2

\* the key filter as a set: every key of the word lists when none is given
FilterKeys ==
    IF item_list_keys.kind = "none"
    THEN {name_seeds[i].listName : i \in DOMAIN name_seeds}
    ELSE Range(item_list_keys.values)

\* the items of the word lists whose key is in the filter and whose
\* position is one of positions
ItemsAt(positions) ==
    UNION {Range(name_seeds[i].listItems) :
              i \in {j \in DOMAIN name_seeds :
                        /\ name_seeds[j].listName \in FilterKeys
                        /\ name_seeds[j].listPlacement \in positions}}

\* C20: the Start pool is exactly the set of the items of the word lists
\* whose key is in the key filter and whose position is START or
\* START_END, the End pool the same for END or START_END: an item of
\* END lists only is not in the Start pool, an item of START lists only is
\* not in the End pool, an item of lists outside the filter is in neither.
C20_PoolsByKeyAndPosition ==
    /\ gen_pc \in {"end", "pools", "done"} =>
          Range(start_items) = ItemsAt({Position_START, Position_START_END})
    /\ gen_pc \in {"pools", "done"} =>
          Range(end_items) = ItemsAt({Position_END, Position_START_END})

C20_Witness ==
    /\ gen_pc = "pools"
    /\ item_list_keys = ArgOne("colors")
    /\ Len(name_seeds) = 2
    /\ name_seeds[1] = [listName |-> "animals", listPlacement |-> BEGINNING,
                        listItems |-> << <<1, 2>> >>]
    /\ name_seeds[2].listName = "colors"
    /\ name_seeds[2].listPlacement = END
    /\ start_items = <<>>
    /\ end_items = << <<1>>, <<2>> >>

\* a key of the key filter is the listName of no word list
UnknownKeyRequested ==
    /\ item_list_keys.kind # "none"
    /\ \E k \in Range(item_list_keys.values) :
          \A i \in DOMAIN name_seeds : name_seeds[i].listName # k

\* C21: a generation asked for a key that matches no word list fails: it
\* returns no pool and no candidate sequence, so it stays before the first
\* of its calls.
C21_UnknownKeyFails ==
    name_seeds # <<>> /\ UnknownKeyRequested => gen_pc = "start"

StoreErrors == {"JSONDecodeError", "OSError"}

\* C22: a failure to read or to write the store while batch k is saved
\* stops the run.  The save that finds the file unreadable raises; a run
\* ended by an exception takes no further step; and in a run ended by a
\* store error every check made was of an item of batches 1..k, no request
\* was issued for another item, and the summaries printed are those of
\* batches 1..k-1.
C22_StoreFailureStopsRun ==
    /\ [][pc = "save" /\ file.exists /\ ~file.valid =>
             /\ pc' = "crashed"
             /\ crash' = "JSONDecodeError"
             /\ summaries' = summaries
             /\ requested' = requested]_vars
    /\ [][pc # "crashed"]_vars
    /\ [](pc = "crashed" /\ crash \in StoreErrors =>
             LET items == Flatten(SubSeq(batches, 1, bi))
             IN  /\ summaries = bi - 1
                 /\ Len(checked) = Len(items)
                 /\ \A i \in DOMAIN checked : checked[i].item = items[i]
                 /\ requested \subseteq Range(items))

C22_Witness ==
    /\ pc = "crashed"
    /\ crash = "JSONDecodeError"
    /\ Len(batches) = 2
    /\ bi = 1
    /\ summaries = 0
    /\ checked # <<>>

\* C23: the file at the final path is never a partial download.  A file
\* that was there before the call keeps its content, and the call for it
\* makes no request; while a download is in work and after it failed no
\* file is at its final path, what was written being in the tmp directory
\* only; the file at the final path after a download that succeeded holds
\* every chunk of the response.
C23_NoPartialFinalFile ==
    /\ \A f \in Filenames :
          /\ ~Partial(dl_final[f])
          /\ dl_initial[f].exists => dl_final[f] = dl_initial[f]
    /\ dl_pc \in {"request", "write"} => ~dl_final[DlFilename].exists
    /\ \A i \in DOMAIN dl_attempts :
          LET a == dl_attempts[i]
          IN  /\ a.existed <=> a.outcome = "skipped"
              /\ a.outcome = "skipped" => ~a.requested
              /\ a.outcome = "raised" => ~a.final_after.exists
              /\ a.outcome = "done" =>
                    /\ a.final_after.exists
                    /\ Len(a.final_after.data) = a.final_after.total

C23_Witness ==
    /\ dl_pc = "returned"
    /\ Len(dl_attempts) = 2
    /\ dl_attempts[1].outcome = "raised"
    /\ Partial(dl_tmp[FilenameOf(dl_attempts[1].url)])
    /\ ~dl_final[FilenameOf(dl_attempts[1].url)].exists
    /\ dl_attempts[2].outcome = "skipped"

\* C24: download_multiple attempts every url of its list once, in list
\* order: an exception of one download ends that download only, the next
\* urls are attempted, and download_multiple raises nothing; when it
\* returns every url was attempted and the tmp directory is gone when no
\* file is left in it.
C24_EveryUrlAttempted ==
    /\ dl_pc # "raised"
    /\ Len(dl_attempts) <= Len(dl_urls)
    /\ \A i \in DOMAIN dl_attempts : dl_attempts[i].url = dl_urls[i]
    /\ dl_pc \in {"loop", "request", "write"} => dl_ui = Len(dl_attempts) + 1
    /\ dl_pc \in {"cleanup", "returned"} => Len(dl_attempts) = Len(dl_urls)
    /\ dl_pc = "returned" =>
          (dl_tmpdir <=> \E f \in Filenames : dl_tmp[f].exists)

C24_Witness ==
    /\ dl_pc = "returned"
    /\ Len(dl_urls) = 2
    /\ dl_attempts[1].outcome = "raised"
    /\ dl_attempts[2].outcome = "done"
    /\ ~dl_tmpdir

\* the candidates that come before batch[ii] in the run
Preceding == Flatten(SubSeq(batches, 1, bi - 1)) \o SubSeq(batch, 1, ii - 1)

\* C27: while a request for a candidate is about to be issued or its
\* cooldown runs, the checks of all candidates before it, and of no other,
\* have returned, in list order; every earlier request of the same check was
\* followed by its cooldown; and the results of every earlier batch have
\* been written to the store, which is not in the middle of a write.
C27_OneRequestAtATime ==
    entry = "main" /\ pc \in {"request", "sleep"} =>
        /\ ~check_done
        /\ Len(checked) = Len(Preceding)
        /\ \A i \in DOMAIN checked : checked[i].item = Preceding[i]
        /\ requested \subseteq Range(Preceding) \cup {batch[ii]}
        /\ waits = IF pc = "request" THEN Len(responses)
                   ELSE Len(responses) - 1
        /\ summaries = bi - 1
        /\ bi > 1 => file = ValidFile(durable)

C27_Witness ==
    /\ entry = "main"
    /\ pc = "request"
    /\ bi = 2
    /\ ii = 2
    /\ Len(responses) = 1
    /\ waits = 1
    /\ batch[1] \in requested

\* the store holds the result of a check: a record of the item's name that
\* carries the item's key
Persisted(c) ==
    LET r == JsonRecord(c.item, c.available)
    IN  /\ file.exists
        /\ file.valid
        /\ \E j \in DOMAIN file.recs :
              /\ file.recs[j].name = r.name
              /\ DOMAIN r.fields \subseteq DOMAIN file.recs[j].fields

\* C28: when the run has ended on an exception, the result of every check
\* that returned before it, of the batch in work and of the batches before
\* it, is in the store.
C28_AbortKeepsCheckedResults ==
    entry = "main" /\ pc = "crashed" =>
        \A i \in DOMAIN checked : Persisted(checked[i])

\* the run has ended: main returned, or an exception left it
RunEnded == pc \in {"done", "crashed"}

\* C29: at every moment of a domain check at most max_retries requests were
\* made and at most max_retries cooldowns taken for the candidate in work,
\* a cooldown only after a request; and every run ends.
C29_BoundedRetriesAndTermination ==
    /\ [](provider = "GoDaddy" =>
             /\ Len(responses) <= max_retries
             /\ waits <= Len(responses))
    /\ <>[]RunEnded

C29_Witness ==
    /\ provider = "GoDaddy"
    /\ pc = "done"
    /\ max_retries = 2
    /\ Len(responses) = 2
    /\ waits = 2
    /\ Len(checked) >= 2

\* C30: a check that has returned made at least one request, and every
\* candidate whose result was reported, and with it every candidate whose
\* result is in the store, was requested from the provider.
C30_NoOutcomeWithoutRequest ==
    /\ check_done => responses # <<>>
    /\ \A i \in DOMAIN checked : checked[i].item \in requested

====
